---- MODULE Spec2Model ----
(***************************************************************************)
(* Model of package flags (flags.go): the descriptor table built from the  *)
(* tagged struct, the argument scanner of Parse, and PrintHelp.            *)
(*                                                                         *)
(* Go strings are sequences of one-character strings, so that indexing,    *)
(* splitting on "=" and the per-character loop over a cluster are what     *)
(* the code does.  Go indexes from 0, the model from 1: fieldIndex and     *)
(* expectOptIdx are the Go values plus one.                                *)
(***************************************************************************)
EXTENDS Integers, Sequences, FiniteSets, TLC

VARIABLES
    fields,           \* the struct type behind taggedStructP: its declared fields
    opts0,            \* the field values of *taggedStructP when Parse is called
    argv,             \* argv[1:], the tokens Parse scans
    opts,             \* the field values of *taggedStructP
    definedOptions,   \* Parse's local definedOptions
    optionsMap,       \* Parse's local optionsMap
    argAlready,       \* Parse's local argAlready (the keys set to true)
    args,             \* Parse's local args
    onlyArgsRemain,   \* Parse's local onlyArgsRemain
    expectOptArg,     \* Parse's local expectOptArg
    expectOptIdx,     \* Parse's local expectOptIdx
    i,                \* the number of elements of argv[1:] the loop has taken
    err,              \* the error Parse returns
    pc,               \* "define", "scan", "done" (returned) or "panic"; "help"
                      \* when PrintHelp is called
    out               \* the lines PrintHelp has printed

vars == <<fields, opts0, argv, opts, definedOptions, optionsMap, argAlready,
          args, onlyArgsRemain, expectOptArg, expectOptIdx, i, err, pc, out>>

-----------------------------------------------------------------------------
(* The struct type.  A field is its reflect.Kind and its "flags" tag; the  *)
(* tag is given by the submatches regexTag finds in it (short, arg1, long, *)
(* arg2, help), hasTag is FALSE for a field without the tag, matched is    *)
(* FALSE for a tag regexTag does not match.                                *)

tagNone ==
    [short |-> <<>>, arg1 |-> <<>>, long |-> <<>>, arg2 |-> <<>>, help |-> <<>>]

tagHelp ==
    \* "-h, --help"
    [short |-> <<"-", "h">>, arg1 |-> <<>>,
     long |-> <<"-", "-", "h", "e", "l", "p">>, arg2 |-> <<>>,
     help |-> <<>>]

tagQuiet ==
    \* "-q, --quiet             suppress output"
    [short |-> <<"-", "q">>, arg1 |-> <<>>,
     long |-> <<"-", "-", "q", "u", "i", "e", "t">>, arg2 |-> <<>>,
     help |-> <<"s", "u", "p", "p", "r", "e", "s", "s", " ", "o", "u", "t", "p", "u", "t">>]

tagVerbose ==
    \* "-v, --verbose           be more verbose (may be given multiple times)"
    [short |-> <<"-", "v">>, arg1 |-> <<>>,
     long |-> <<"-", "-", "v", "e", "r", "b", "o", "s", "e">>, arg2 |-> <<>>,
     help |-> <<"b", "e", " ", "m", "o", "r", "e", " ", "v", "e", "r", "b", "o", "s", "e">>]

tagNum ==
    \* "-n, --num=NUMBER        specify number"
    [short |-> <<"-", "n">>, arg1 |-> <<>>,
     long |-> <<"-", "-", "n", "u", "m">>, arg2 |-> <<"N", "U", "M", "B", "E", "R">>,
     help |-> <<"s", "p", "e", "c", "i", "f", "y", " ", "n", "u", "m", "b", "e", "r">>]

tagUnsigned ==
    \* "-u, --unsigned=NUMBER   specify number >= 0"
    [short |-> <<"-", "u">>, arg1 |-> <<>>,
     long |-> <<"-", "-", "u", "n", "s", "i", "g", "n", "e", "d">>,
     arg2 |-> <<"N", "U", "M", "B", "E", "R">>,
     help |-> <<"s", "p", "e", "c", "i", "f", "y", " ", "n", "u", "m", "b", "e", "r",
                " ", ">", "=", " ", "0">>]

tagFile ==
    \* "-f, --file=FILE         specify filename"
    [short |-> <<"-", "f">>, arg1 |-> <<>>,
     long |-> <<"-", "-", "f", "i", "l", "e">>, arg2 |-> <<"F", "I", "L", "E">>,
     help |-> <<"s", "p", "e", "c", "i", "f", "y", " ", "f", "i", "l", "e", "n", "a", "m", "e">>]

tagName ==
    \* "-s  name": a string field whose tag has no placeholder
    [short |-> <<"-", "s">>, arg1 |-> <<>>, long |-> <<>>, arg2 |-> <<>>,
     help |-> <<"n", "a", "m", "e">>]

tagDash ==
    \* "--": regexTag's short group -[a-zA-Z0-9-] matches a second dash
    [short |-> <<"-", "-">>, arg1 |-> <<>>, long |-> <<>>, arg2 |-> <<>>,
     help |-> <<>>]

tagCount ==
    \* "--count  count": a long spelling only
    [short |-> <<>>, arg1 |-> <<>>,
     long |-> <<"-", "-", "c", "o", "u", "n", "t">>, arg2 |-> <<>>,
     help |-> <<"c", "o", "u", "n", "t">>]

\* testOptions of flags_test.go, followed by declarations defineOptions also
\* accepts and by a field that has no tag
Options ==
    << [name |-> "Help",     kind |-> "bool",   hasTag |-> TRUE,  matched |-> TRUE, m |-> tagHelp],
       [name |-> "Quiet",    kind |-> "bool",   hasTag |-> TRUE,  matched |-> TRUE, m |-> tagQuiet],
       [name |-> "Verbose",  kind |-> "int",    hasTag |-> TRUE,  matched |-> TRUE, m |-> tagVerbose],
       [name |-> "Num",      kind |-> "int",    hasTag |-> TRUE,  matched |-> TRUE, m |-> tagNum],
       [name |-> "Unsigned", kind |-> "uint",   hasTag |-> TRUE,  matched |-> TRUE, m |-> tagUnsigned],
       [name |-> "File",     kind |-> "string", hasTag |-> TRUE,  matched |-> TRUE, m |-> tagFile],
       [name |-> "Name",     kind |-> "string", hasTag |-> TRUE,  matched |-> TRUE, m |-> tagName],
       [name |-> "Dash",     kind |-> "bool",   hasTag |-> TRUE,  matched |-> TRUE, m |-> tagDash],
       [name |-> "Count",    kind |-> "uint",   hasTag |-> TRUE,  matched |-> TRUE, m |-> tagCount],
       [name |-> "Plain",    kind |-> "int",    hasTag |-> FALSE, matched |-> TRUE, m |-> tagNone] >>

StructTypes == {Options}

\* the zero value of a field of the given kind
ZeroValue(kind) ==
    CASE kind = "bool"   -> FALSE
      [] kind = "int"    -> 0
      [] kind = "uint"   -> 0
      [] kind = "string" -> <<>>
      [] OTHER           -> 0

\* a value of the given kind that is not the zero value
SetValue(kind) ==
    CASE kind = "bool"   -> TRUE
      [] kind = "int"    -> 7
      [] kind = "uint"   -> 3
      [] kind = "string" -> <<"x">>
      [] OTHER           -> 1

\* the records the caller passes: the zero value (testOptions{}) and one
\* with every field set beforehand
Records(fs) ==
    { [f \in 1..Len(fs) |-> ZeroValue(fs[f].kind)],
      [f \in 1..Len(fs) |-> SetValue(fs[f].kind)] }

-----------------------------------------------------------------------------
(* strconv, as setOptArg uses it *)

Digits == {"0", "1", "2", "3", "4", "5", "6", "7", "8", "9"}

DigitVal(c) ==
    CASE c = "0" -> 0 [] c = "1" -> 1 [] c = "2" -> 2 [] c = "3" -> 3
      [] c = "4" -> 4 [] c = "5" -> 5 [] c = "6" -> 6 [] c = "7" -> 7
      [] c = "8" -> 8 [] c = "9" -> 9

AllDigits(str) == \A k \in 1..Len(str) : str[k] \in Digits

RECURSIVE StripZeros(_)
StripZeros(str) ==
    IF Len(str) > 1 /\ str[1] = "0" THEN StripZeros(Tail(str)) ELSE str

\* a <= b for digit strings of the same length
RECURSIVE DigitsLeq(_, _)
DigitsLeq(a, b) ==
    IF a = <<>> THEN TRUE
    ELSE IF DigitVal(a[1]) < DigitVal(b[1]) THEN TRUE
    ELSE IF DigitVal(a[1]) > DigitVal(b[1]) THEN FALSE
    ELSE DigitsLeq(Tail(a), Tail(b))

\* the number a digit string without leading zeros denotes is at most limit's
InRange(str, limit) ==
    LET d == StripZeros(str)
    IN  \/ Len(d) < Len(limit)
        \/ Len(d) = Len(limit) /\ DigitsLeq(d, limit)

MaxUint64 ==
    <<"1", "8", "4", "4", "6", "7", "4", "4", "0", "7", "3", "7", "0", "9", "5", "5",
      "1", "6", "1", "5">>

MaxInt64 ==
    <<"9", "2", "2", "3", "3", "7", "2", "0", "3", "6", "8", "5", "4", "7", "7", "5",
      "8", "0", "7">>

MinInt64Abs ==
    <<"9", "2", "2", "3", "3", "7", "2", "0", "3", "6", "8", "5", "4", "7", "7", "5",
      "8", "0", "8">>

RECURSIVE DecValue(_)
DecValue(str) ==
    IF str = <<>> THEN 0
    ELSE 10 * DecValue(SubSeq(str, 1, Len(str) - 1)) + DigitVal(str[Len(str)])

\* strconv.ParseUint(s, 10, 64): digits only, no sign, no underscore
ParseUint(str) ==
    IF str # <<>> /\ AllDigits(str) /\ InRange(str, MaxUint64)
    THEN [ok |-> TRUE, val |-> DecValue(str)]
    ELSE [ok |-> FALSE, val |-> 0]

\* strconv.ParseInt(s, 10, 64): an optional sign, then digits
ParseInt(str) ==
    LET signed == str # <<>> /\ str[1] \in {"+", "-"}
        neg    == str # <<>> /\ str[1] = "-"
        body   == IF signed THEN Tail(str) ELSE str
    IN  IF body # <<>> /\ AllDigits(body)
           /\ InRange(body, IF neg THEN MinInt64Abs ELSE MaxInt64)
        THEN [ok |-> TRUE, val |-> IF neg THEN 0 - DecValue(body) ELSE DecValue(body)]
        ELSE [ok |-> FALSE, val |-> 0]

\* strconv.ParseBool
ParseBool(str) ==
    IF str \in { <<"1">>, <<"t">>, <<"T">>, <<"T", "R", "U", "E">>,
                 <<"t", "r", "u", "e">>, <<"T", "r", "u", "e">> }
    THEN [ok |-> TRUE, val |-> TRUE]
    ELSE IF str \in { <<"0">>, <<"f">>, <<"F">>, <<"F", "A", "L", "S", "E">>,
                      <<"f", "a", "l", "s", "e">>, <<"F", "a", "l", "s", "e">> }
    THEN [ok |-> TRUE, val |-> FALSE]
    ELSE [ok |-> FALSE, val |-> FALSE]

-----------------------------------------------------------------------------
(* regexTag and FindStringSubmatch.  Go's regexp package gives the         *)
(* submatches of the match a backtracking matcher finds first, so every    *)
(* operator below lists the ways its part of the pattern can match in      *)
(* that order: an optional group present before absent, a repetition       *)
(* longest first.                                                          *)

Lower ==
    {"a", "b", "c", "d", "e", "f", "g", "h", "i", "j", "k", "l", "m",
     "n", "o", "p", "q", "r", "s", "t", "u", "v", "w", "x", "y", "z"}

Upper ==
    {"A", "B", "C", "D", "E", "F", "G", "H", "I", "J", "K", "L", "M",
     "N", "O", "P", "Q", "R", "S", "T", "U", "V", "W", "X", "Y", "Z"}

\* [a-zA-Z0-9]
Alnum == Lower \cup Upper \cup Digits

\* \s
Whitespace == {" ", "\t", "\n", "\f", "\r"}

\* [a-zA-Z0-9-]
NameChars == Alnum \cup {"-"}

\* [,\s], and what [^,\s] excludes
SepChars == Whitespace \cup {","}

\* the element of a singleton.  The({e(x) : x \in {v}}) is e(v), with v
\* computed once
The(S) == CHOOSE x \in S : TRUE

\* the length of the longest run, from position p, of characters of the
\* class (inside) or of characters not of the class (~inside)
Span(str, p, class, inside) ==
    The({ IF p > Len(str) THEN 0
          ELSE IF stops = {} THEN Len(str) - p + 1
          ELSE (CHOOSE q \in stops : \A r \in stops : q <= r) - p
          : stops \in {{q \in p..Len(str) : (str[q] \in class) # inside}} })

RECURSIVE Concat(_)
Concat(seqs) == IF seqs = <<>> THEN <<>> ELSE Head(seqs) \o Concat(Tail(seqs))

\* (?:=(?P<arg>[^,\s]+))? at position p: the placeholder and the position
\* after it
ArgAlts(str, p) ==
    The({ (IF p <= Len(str) /\ str[p] = "=" /\ r >= 1
           THEN [k \in 1..r |-> [p |-> p + 1 + (r - k + 1),
                                  arg |-> SubSeq(str, p + 1, p + (r - k + 1))]]
           ELSE <<>>)
          \o <<[p |-> p, arg |-> <<>>]>>
          : r \in {Span(str, p + 1, SepChars, FALSE)} })

\* (?:(?P<short>-[a-zA-Z0-9-])(?:=(?P<arg1>[^,\s]+))?)? at position p
ShortAlts(str, p) ==
    The({ (IF p + 1 <= Len(str) /\ str[p] = "-" /\ str[p + 1] \in NameChars
           THEN [k \in 1..Len(as) |->
                    [p |-> as[k].p, short |-> SubSeq(str, p, p + 1), arg1 |-> as[k].arg]]
           ELSE <<>>)
          \o <<[p |-> p, short |-> <<>>, arg1 |-> <<>>]>>
          : as \in {ArgAlts(str, p + 2)} })

\* (?:\s*,\s*)? at position p: the positions after it
CommaAlts(str, p) ==
    The({ The({ (IF c <= Len(str) /\ str[c] = ","
                 THEN [k \in 1..(r + 1) |-> c + 1 + (r - k + 1)]
                 ELSE <<>>)
                \o <<p>>
                : r \in {Span(str, c + 1, Whitespace, TRUE)} })
          : c \in {p + Span(str, p, Whitespace, TRUE)} })

\* the first group of the pattern, from the start of the tag
FirstAlts(str) ==
    The({ Concat([j \in 1..Len(ss) |->
                    The({ [k \in 1..Len(cs) |-> [ss[j] EXCEPT !.p = cs[k]]]
                          : cs \in {CommaAlts(str, ss[j].p)} })])
          \o <<[p |-> 1, short |-> <<>>, arg1 |-> <<>>]>>
          : ss \in {ShortAlts(str, 1)} })

\* the long spelling that ends at position e, with each placeholder
LongEndingAt(str, p, e) ==
    The({ [j \in 1..Len(as) |->
             [p |-> as[j].p, long |-> SubSeq(str, p, e), arg2 |-> as[j].arg]]
          : as \in {ArgAlts(str, e + 1)} })

\* (?:(?P<long>--[a-zA-Z0-9][a-zA-Z0-9-]+)(?:=(?P<arg2>[^,\s]+))?)? at p
LongAlts(str, p) ==
    The({ (IF p + 2 <= Len(str) /\ str[p] = "-" /\ str[p + 1] = "-"
              /\ str[p + 2] \in Alnum /\ r >= 1
           THEN Concat([k \in 1..r |-> LongEndingAt(str, p, p + 2 + (r - k + 1))])
           ELSE <<>>)
          \o <<[p |-> p, long |-> <<>>, arg2 |-> <<>>]>>
          : r \in {Span(str, p + 3, NameChars, TRUE)} })

\* the help may begin with a dash: (?P<help>[^\s].+)?$
HelpEndDashed(str, q) ==
    (IF q + 1 <= Len(str) /\ str[q] \notin Whitespace
        /\ \A j \in (q + 1)..Len(str) : str[j] # "\n"
     THEN <<SubSeq(str, q, Len(str))>>
     ELSE <<>>)
    \o (IF q = Len(str) + 1 THEN <<<<>>>> ELSE <<>>)

\* (?P<help>[^-\s].+)?$ at position q: the help texts with which the
\* pattern ends at the end of the tag
HelpEnd(str, q) ==
    (IF q + 1 <= Len(str) /\ str[q] \notin Whitespace \cup {"-"}
        /\ \A j \in (q + 1)..Len(str) : str[j] # "\n"
     THEN <<SubSeq(str, q, Len(str))>>
     ELSE <<>>)
    \o (IF q = Len(str) + 1 THEN <<<<>>>> ELSE <<>>)

\* (?:[,\s]+(?P<help>[^-\s].+)?)?$ at position p
HelpAlts(str, p) ==
    The({ Concat([k \in 1..r |-> HelpEnd(str, p + (r - k + 1))])
          \o (IF p = Len(str) + 1 THEN <<<<>>>> ELSE <<>>)
          : r \in {Span(str, p, SepChars, TRUE)} })

\* the matches that begin with the first group fa and go on with the long
\* group la
MatchesOf(str, fa, la) ==
    The({ [h \in 1..Len(hs) |->
             [short |-> fa.short, arg1 |-> fa.arg1,
              long |-> la.long, arg2 |-> la.arg2, help |-> hs[h]]]
          : hs \in {HelpAlts(str, la.p)} })

\* the matches that begin with the first group fa
MatchesFrom(str, fa) ==
    The({ Concat([l \in 1..Len(las) |-> MatchesOf(str, fa, las[l])])
          : las \in {LongAlts(str, fa.p)} })

\* every way the whole pattern matches the tag, the first one first
TagMatches(str) ==
    The({ Concat([a \in 1..Len(fas) |-> MatchesFrom(str, fas[a])])
          : fas \in {FirstAlts(str)} })

\* regexTag.FindStringSubmatch(tag): matched is len(matches) != 0, m the
\* named submatches
regexTag(str) ==
    The({ IF ms = <<>>
          THEN [matched |-> FALSE,
                m |-> [short |-> <<>>, arg1 |-> <<>>, long |-> <<>>, arg2 |-> <<>>,
                       help |-> <<>>]]
          ELSE [matched |-> TRUE, m |-> ms[1]]
          : ms \in {TagMatches(str)} })

\* a struct field of the given kind with the given "flags" tag
Field(name, kind, tag) ==
    The({ [name |-> name, kind |-> kind, hasTag |-> tag # <<>>, tag |-> tag,
           matched |-> r.matched, m |-> r.m]
          : r \in {regexTag(tag)} })

-----------------------------------------------------------------------------
(* The descriptor table *)

SupportedKinds == {"bool", "int", "uint", "string"}

\* only the short spelling's placeholder counts
requireArgOfShort(shortArg, longArg) == shortArg # <<>>

requireArg(shortArg, longArg) == shortArg # <<>> \/ longArg # <<>>

\* the field is referred to by its place among the tagged fields
optionDefByOrder(fs, f) ==
    [shortOpt   |-> fs[f].m.short,
     shortArg   |-> fs[f].m.arg1,
     longOpt    |-> fs[f].m.long,
     longArg    |-> fs[f].m.arg2,
     requireArg |-> requireArg(fs[f].m.arg1, fs[f].m.arg2),
     help       |-> fs[f].m.help,
     fieldIndex |-> Cardinality({g \in 1..f : fs[g].hasTag}),
     kind       |-> fs[f].kind]

\* the optionDef made from field number f
optionDef(fs, f) ==
    [shortOpt   |-> fs[f].m.short,
     shortArg   |-> fs[f].m.arg1,
     longOpt    |-> fs[f].m.long,
     longArg    |-> fs[f].m.arg2,
     requireArg |-> requireArg(fs[f].m.arg1, fs[f].m.arg2),
     help       |-> fs[f].m.help,
     fieldIndex |-> f,
     kind       |-> fs[f].kind]

\* a field of a kind that is not handled is passed over
RECURSIVE defineFromSkips(_, _, _)
defineFromSkips(fs, f, defs) ==
    IF f > Len(fs) THEN [panic |-> FALSE, defs |-> defs]
    ELSE IF ~fs[f].hasTag THEN defineFromSkips(fs, f + 1, defs)
    ELSE IF fs[f].kind \notin SupportedKinds THEN defineFromSkips(fs, f + 1, defs)
    ELSE IF ~fs[f].matched THEN [panic |-> TRUE, defs |-> defs]
    ELSE IF fs[f].m.short = <<>> /\ fs[f].m.long = <<>> THEN [panic |-> TRUE, defs |-> defs]
    ELSE defineFromSkips(fs, f + 1, Append(defs, optionDef(fs, f)))

\* defineOptions from field f on, defs being the table so far:
\* [panic |-> it panicked, defs |-> the table]
RECURSIVE defineFrom(_, _, _)
defineFrom(fs, f, defs) ==
    IF f > Len(fs) THEN [panic |-> FALSE, defs |-> defs]
    ELSE IF ~fs[f].hasTag THEN defineFrom(fs, f + 1, defs)
    ELSE IF fs[f].kind \notin SupportedKinds THEN [panic |-> TRUE, defs |-> defs]
    ELSE IF ~fs[f].matched THEN [panic |-> TRUE, defs |-> defs]
    ELSE IF fs[f].m.short = <<>> /\ fs[f].m.long = <<>> THEN [panic |-> TRUE, defs |-> defs]
    ELSE defineFrom(fs, f + 1, Append(defs, optionDef(fs, f)))

defineOptions(fs) == defineFrom(fs, 1, <<>>)

MapPut(map, key, val) ==
    [x \in DOMAIN map \cup {key} |-> IF x = key THEN val ELSE map[x]]

RECURSIVE mapFrom(_, _, _)
mapFrom(defs, d, map) ==
    IF d > Len(defs) THEN map
    ELSE LET x  == defs[d]
             m1 == IF x.shortOpt # <<>> THEN MapPut(map, x.shortOpt, d) ELSE map
             m2 == IF x.longOpt # <<>> THEN MapPut(m1, x.longOpt, d) ELSE m1
         IN  mapFrom(defs, d + 1, m2)

makeOptionsMap(defs) == mapFrom(defs, 1, <<>>)

combineOptions(short, long) ==
    IF short # <<>> /\ long # <<>> THEN short \o <<",", " ">> \o long
    ELSE IF short # <<>> THEN short
    ELSE long

-----------------------------------------------------------------------------
(* Errors: the format string of the fmt.Sprintf call and its arguments *)

Nil == [fmt |-> "nil", a |-> <<>>]

ErrMultiple      == "option %s was passed multiple times"
ErrInvalidValue  == "option %s: invalid value %q"
ErrInvalidOption == "invalid option: %q"
ErrInvalidPart   == "invalid option: %q (part of %q)"
ErrTakesNoArg    == "option %s does not take an argument"
ErrRequiresArg   == "option %s requires an argument"
ErrRequiresArgOf == "option %s requires an argument %s"

Error(format, a) == [fmt |-> format, a |-> a]

-----------------------------------------------------------------------------
(* The scanner.  A scan state s is the record of Parse's locals and of the *)
(* field values: opts, args, argAlready, onlyArgsRemain, expectOptArg,     *)
(* expectOptIdx, err, pc.                                                  *)

\* return args, errors.New(...)
Fail(s, e) == [s EXCEPT !.err = e, !.pc = "done"]

\* an integer option is set to 1 instead of counted
setOptAssigns(s, f) ==
    CASE fields[f].kind = "bool" -> [s EXCEPT !.opts[f] = TRUE]
      [] fields[f].kind = "int"  -> [s EXCEPT !.opts[f] = 1]
      [] fields[f].kind = "uint" -> [s EXCEPT !.opts[f] = 1]
      [] OTHER                   -> [s EXCEPT !.pc = "panic"]

\* setOpt(s.Field(f)): the scan state after it, pc = "panic" if it panics
setOpt(s, f) ==
    CASE fields[f].kind = "bool" -> [s EXCEPT !.opts[f] = TRUE]
      [] fields[f].kind = "int"  -> [s EXCEPT !.opts[f] = @ + 1]
      [] fields[f].kind = "uint" -> [s EXCEPT !.opts[f] = @ + 1]
      [] OTHER                   -> [s EXCEPT !.pc = "panic"]

\* an unsigned field is parsed with a sign allowed
setOptArgSigned(s, f, optarg) ==
    CASE fields[f].kind = "bool" ->
            LET r == ParseBool(optarg)
            IN  IF r.ok THEN [err |-> FALSE, s |-> [s EXCEPT !.opts[f] = r.val]]
                ELSE [err |-> TRUE, s |-> s]
      [] fields[f].kind \in {"int", "uint"} ->
            LET r == ParseInt(optarg)
            IN  IF r.ok THEN [err |-> FALSE, s |-> [s EXCEPT !.opts[f] = r.val]]
                ELSE [err |-> TRUE, s |-> s]
      [] fields[f].kind = "string" ->
            [err |-> FALSE, s |-> [s EXCEPT !.opts[f] = optarg]]
      [] OTHER -> [err |-> FALSE, s |-> [s EXCEPT !.pc = "panic"]]

\* setOptArg(s.Field(f), optarg): [err |-> it returned an error, s |-> the
\* scan state after it]
setOptArg(s, f, optarg) ==
    CASE fields[f].kind = "bool" ->
            LET r == ParseBool(optarg)
            IN  IF r.ok THEN [err |-> FALSE, s |-> [s EXCEPT !.opts[f] = r.val]]
                ELSE [err |-> TRUE, s |-> s]
      [] fields[f].kind = "int" ->
            LET r == ParseInt(optarg)
            IN  IF r.ok THEN [err |-> FALSE, s |-> [s EXCEPT !.opts[f] = r.val]]
                ELSE [err |-> TRUE, s |-> s]
      [] fields[f].kind = "uint" ->
            LET r == ParseUint(optarg)
            IN  IF r.ok THEN [err |-> FALSE, s |-> [s EXCEPT !.opts[f] = r.val]]
                ELSE [err |-> TRUE, s |-> s]
      [] fields[f].kind = "string" ->
            [err |-> FALSE, s |-> [s EXCEPT !.opts[f] = optarg]]
      [] OTHER -> [err |-> FALSE, s |-> [s EXCEPT !.pc = "panic"]]

\* the index of the first "=" of arg, 0 if it has none
IndexEq(arg) ==
    IF \E k \in 1..Len(arg) : arg[k] = "="
    THEN CHOOSE k \in 1..Len(arg) :
            arg[k] = "=" /\ \A j \in 1..(k - 1) : arg[j] # "="
    ELSE 0

\* the spelling that was given as the key
AlreadyKeySpelling(optDef, opt) == opt

\* the key of argAlready for an option
AlreadyKey(optDef, opt) == combineOptions(optDef.shortOpt, optDef.longOpt)

\* the key is recorded before the value is converted
OptArgStepMarksFirst(s, arg) ==
    LET optDef   == definedOptions[s.expectOptIdx]
        opt      == IF optDef.longOpt = <<>> THEN optDef.shortOpt ELSE optDef.longOpt
        combined == AlreadyKey(optDef, opt)
        marked   == [s EXCEPT !.argAlready = @ \cup {combined}]
        r        == setOptArg(marked, optDef.fieldIndex, arg)
    IN  IF combined \in s.argAlready THEN Fail(s, Error(ErrMultiple, <<combined>>))
        ELSE IF r.err THEN Fail(marked, Error(ErrInvalidValue, <<opt, arg>>))
        ELSE [r.s EXCEPT !.expectOptArg = FALSE]

\* if expectOptArg { ... }: arg is the value of option expectOptIdx
OptArgStep(s, arg) ==
    LET optDef   == definedOptions[s.expectOptIdx]
        opt      == IF optDef.longOpt = <<>> THEN optDef.shortOpt ELSE optDef.longOpt
        combined == AlreadyKey(optDef, opt)
        r        == setOptArg(s, optDef.fieldIndex, arg)
    IN  IF combined \in s.argAlready THEN Fail(s, Error(ErrMultiple, <<combined>>))
        ELSE IF r.err THEN Fail(s, Error(ErrInvalidValue, <<opt, arg>>))
        ELSE [r.s EXCEPT !.argAlready = @ \cup {combined}, !.expectOptArg = FALSE]

\* getopt's rule instead: the first argument ends the options
AppendArgEndsOptions(s, arg) ==
    [s EXCEPT !.args = Append(@, arg), !.onlyArgsRemain = TRUE]

\* args = append(args, arg)
AppendArg(s, arg) == [s EXCEPT !.args = Append(@, arg)]

\* a second "--" ends the literal part
LiteralStepReopens(s, arg) ==
    IF arg = <<"-", "-">> THEN [s EXCEPT !.onlyArgsRemain = FALSE]
    ELSE AppendArg(s, arg)

\* if onlyArgsRemain { ... }: everything after "--" is an argument
LiteralStep(s, arg) == AppendArg(s, arg)

\* the empty string is dropped
EmptyStepSkips(s, arg) == s

\* if arg == "" { ... }: the empty string is an argument
EmptyStep(s, arg) == AppendArg(s, arg)

\* the value is assigned whether or not the option takes one
InlineStepAssigns(s, arg) ==
    LET k      == IndexEq(arg)
        opt    == SubSeq(arg, 1, k - 1)
        optarg == SubSeq(arg, k + 1, Len(arg))
    IN  IF opt \notin DOMAIN optionsMap THEN Fail(s, Error(ErrInvalidOption, <<opt>>))
        ELSE LET optDef   == definedOptions[optionsMap[opt]]
                 combined == AlreadyKey(optDef, opt)
                 r        == setOptArg(s, optDef.fieldIndex, optarg)
             IN  IF combined \in s.argAlready
                 THEN Fail(s, Error(ErrMultiple, <<opt>>))
                 ELSE IF r.err THEN Fail(s, Error(ErrInvalidValue, <<opt, optarg>>))
                 ELSE [r.s EXCEPT !.argAlready = @ \cup {combined}]

\* the option has an "=": opt=optarg
InlineStep(s, arg) ==
    LET k      == IndexEq(arg)
        opt    == SubSeq(arg, 1, k - 1)
        optarg == SubSeq(arg, k + 1, Len(arg))
    IN  IF opt \notin DOMAIN optionsMap THEN Fail(s, Error(ErrInvalidOption, <<opt>>))
        ELSE LET optDef   == definedOptions[optionsMap[opt]]
                 combined == AlreadyKey(optDef, opt)
                 r        == setOptArg(s, optDef.fieldIndex, optarg)
             IN  IF ~optDef.requireArg THEN Fail(s, Error(ErrTakesNoArg, <<opt>>))
                 ELSE IF combined \in s.argAlready
                      THEN Fail(s, Error(ErrMultiple, <<opt>>))
                 ELSE IF r.err THEN Fail(s, Error(ErrInvalidValue, <<opt, optarg>>))
                 ELSE [r.s EXCEPT !.argAlready = @ \cup {combined}]

\* k is the last position of the cluster's characters (k >= len(arg[1:])-1
\* for the 0-based k of the code; the tokens are ASCII, so the byte offset
\* the code compares is the character's position)
IsLast(k, rest) == k >= Len(rest)

\* multiple short options: the loop over arg[1:], from its character k on
RECURSIVE ClusterFrom(_, _, _)
ClusterFrom(s, arg, k) ==
    LET rest == Tail(arg)
        opt  == <<"-", rest[k]>>
    IN  IF k > Len(rest) THEN s
        ELSE IF opt \notin DOMAIN optionsMap
             THEN Fail(s, Error(ErrInvalidPart, <<opt, arg>>))
        ELSE LET idx    == optionsMap[opt]
                 optDef == definedOptions[idx]
                 s1     == setOpt(s, optDef.fieldIndex)
             IN  IF optDef.requireArg
                 THEN IF IsLast(k, rest)
                      THEN [s EXCEPT !.expectOptArg = TRUE, !.expectOptIdx = idx]
                      ELSE Fail(s, Error(ErrRequiresArg, <<opt>>))
                 ELSE IF s1.pc = "panic" THEN s1
                 ELSE ClusterFrom(s1, arg, k + 1)

ClusterStep(s, arg) == ClusterFrom(s, arg, 1)

\* the option is applied and its token kept as an argument as well
SingleStepKeeps(s, arg) ==
    IF arg \notin DOMAIN optionsMap THEN Fail(s, Error(ErrInvalidOption, <<arg>>))
    ELSE LET idx    == optionsMap[arg]
             optDef == definedOptions[idx]
         IN  IF optDef.requireArg
             THEN [s EXCEPT !.expectOptArg = TRUE, !.expectOptIdx = idx]
             ELSE AppendArg(setOpt(s, optDef.fieldIndex), arg)

\* an unknown option is skipped
SingleStepSkipsUnknown(s, arg) ==
    IF arg \notin DOMAIN optionsMap THEN s
    ELSE LET idx    == optionsMap[arg]
             optDef == definedOptions[idx]
         IN  IF optDef.requireArg
             THEN [s EXCEPT !.expectOptArg = TRUE, !.expectOptIdx = idx]
             ELSE setOpt(s, optDef.fieldIndex)

\* a 'bare' option, short or long
SingleStep(s, arg) ==
    IF arg \notin DOMAIN optionsMap THEN Fail(s, Error(ErrInvalidOption, <<arg>>))
    ELSE LET idx    == optionsMap[arg]
             optDef == definedOptions[idx]
         IN  IF optDef.requireArg
             THEN [s EXCEPT !.expectOptArg = TRUE, !.expectOptIdx = idx]
             ELSE setOpt(s, optDef.fieldIndex)

\* the token is a cluster of short options
IsCluster(arg) == Len(arg) > 2 /\ arg[2] # "-"

\* the terminator is looked for before the pending value
IterTerminatorFirst(s, arg) ==
    IF s.onlyArgsRemain THEN LiteralStep(s, arg)
    ELSE IF arg = <<"-", "-">> THEN [s EXCEPT !.onlyArgsRemain = TRUE]
    ELSE IF s.expectOptArg THEN OptArgStep(s, arg)
    ELSE IF arg = <<>> THEN EmptyStep(s, arg)
    ELSE IF arg[1] = "-"
         THEN IF IndexEq(arg) # 0 THEN InlineStep(s, arg)
              ELSE IF IsCluster(arg) THEN ClusterStep(s, arg)
              ELSE SingleStep(s, arg)
    ELSE AppendArg(s, arg)

\* one iteration of the loop over argv[1:]
Iter(s, arg) ==
    IF s.expectOptArg THEN OptArgStep(s, arg)
    ELSE IF s.onlyArgsRemain THEN LiteralStep(s, arg)
    ELSE IF arg = <<"-", "-">> THEN [s EXCEPT !.onlyArgsRemain = TRUE]
    ELSE IF arg = <<>> THEN EmptyStep(s, arg)
    ELSE IF arg[1] = "-"
         THEN IF IndexEq(arg) # 0 THEN InlineStep(s, arg)
              ELSE IF IsCluster(arg) THEN ClusterStep(s, arg)
              ELSE SingleStep(s, arg)
    ELSE AppendArg(s, arg)

\* the check after the loop is left out
FinishUnchecked(s) == [s EXCEPT !.pc = "done"]

\* after the loop
Finish(s) ==
    IF s.expectOptArg
    THEN LET optDef == definedOptions[s.expectOptIdx]
             opt    == IF optDef.longOpt = <<>> THEN optDef.shortOpt ELSE optDef.longOpt
             optarg == IF optDef.longArg = <<>> THEN optDef.shortArg ELSE optDef.longArg
         IN  Fail(s, Error(ErrRequiresArgOf, <<opt, optarg>>))
    ELSE [s EXCEPT !.pc = "done"]

\* the scan state when the loop starts, for the record rec
Start(rec) ==
    [opts |-> rec, args |-> <<>>, argAlready |-> {}, onlyArgsRemain |-> FALSE,
     expectOptArg |-> FALSE, expectOptIdx |-> 1, err |-> Nil, pc |-> "scan"]

\* the loop over the tokens toks and what follows it, from scan state s
RECURSIVE Run(_, _)
Run(s, toks) ==
    IF s.pc # "scan" THEN s
    ELSE IF toks = <<>> THEN Finish(s)
    ELSE Run(Iter(s, Head(toks)), Tail(toks))

-----------------------------------------------------------------------------
(* The state machine of one Parse call *)

Cur ==
    [opts |-> opts, args |-> args, argAlready |-> argAlready,
     onlyArgsRemain |-> onlyArgsRemain, expectOptArg |-> expectOptArg,
     expectOptIdx |-> expectOptIdx, err |-> err, pc |-> pc]

Load(s) ==
    /\ opts' = s.opts
    /\ args' = s.args
    /\ argAlready' = s.argAlready
    /\ onlyArgsRemain' = s.onlyArgsRemain
    /\ expectOptArg' = s.expectOptArg
    /\ expectOptIdx' = s.expectOptIdx
    /\ err' = s.err
    /\ pc' = s.pc

MaxArgs == 3

\* the tokens argv[1:] is made of
Tokens ==
    { <<>>, <<"-", "-">>, <<"a">>, <<"5">>,
      <<"-", "q">>, <<"-", "v">>, <<"-", "n">>, <<"-", "s">>, <<"-", "p">>,
      <<"-", "-", "c", "o", "u", "n", "t">>, <<"-", "-", "f", "o", "o">>,
      <<"-", "-", "n", "u", "m", "=", "5">>, <<"-", "v", "n">> }

\* the vectors of at most n tokens of T
RECURSIVE Vectors(_, _)
Vectors(T, n) ==
    IF n = 0 THEN {<<>>}
    ELSE LET shorter == Vectors(T, n - 1)
         IN  shorter \cup {Append(v, t) : v \in {w \in shorter : Len(w) = n - 1}, t \in T}

\* Parse is called on a struct of one of the types of S with a vector of at
\* most n tokens of T
InitOf(S, T, n) ==
    /\ fields \in S
    /\ opts0 \in Records(fields)
    /\ argv \in Vectors(T, n)
    /\ opts = opts0
    /\ definedOptions = <<>>
    /\ optionsMap = <<>>
    /\ argAlready = {}
    /\ args = <<>>
    /\ onlyArgsRemain = FALSE
    /\ expectOptArg = FALSE
    /\ expectOptIdx = 1
    /\ i = 0
    /\ err = Nil
    /\ pc = "define"
    /\ out = <<>>

\* Parse is called on a testOptions struct
InitWith(T, n) == InitOf(StructTypes, T, n)

Init == InitWith(Tokens, MaxArgs)

\* Parse before the loop: defineOptions and makeOptionsMap
Define ==
    /\ pc = "define"
    /\ \E r \in {defineOptions(fields)} :
           /\ definedOptions' = r.defs
           /\ optionsMap' = IF r.panic THEN optionsMap ELSE makeOptionsMap(r.defs)
           /\ pc' = IF r.panic THEN "panic" ELSE "scan"
    /\ UNCHANGED <<fields, opts0, argv, opts, argAlready, args, onlyArgsRemain,
                   expectOptArg, expectOptIdx, i, err, out>>

\* one iteration of the loop
Scan ==
    /\ pc = "scan"
    /\ i < Len(argv)
    /\ Load(Iter(Cur, argv[i + 1]))
    /\ i' = i + 1
    /\ UNCHANGED <<fields, opts0, argv, definedOptions, optionsMap, out>>

\* the loop is over: Parse returns
Return ==
    /\ pc = "scan"
    /\ i = Len(argv)
    /\ Load(Finish(Cur))
    /\ UNCHANGED <<fields, opts0, argv, definedOptions, optionsMap, i, out>>

Next == Define \/ Scan \/ Return

Spec == Init /\ [][Next]_vars

-----------------------------------------------------------------------------
(* What the specification calls the tokens of a vector.  These definitions *)
(* read the descriptor table only; they state the claims and are no part   *)
(* of the scanner.                                                         *)

Range(seq) == {seq[k] : k \in 1..Len(seq)}

Terminator == <<"-", "-">>

\* the descriptors that have the spelling opt
Known(opt) == opt \in DOMAIN optionsMap

Descriptor(opt) == definedOptions[optionsMap[opt]]

TakesValue(opt) == Known(opt) /\ Descriptor(opt).requireArg

OptionShaped(tok) == tok # <<>> /\ tok[1] = "-"

HasEq(tok) == \E k \in 1..Len(tok) : tok[k] = "="

\* a cluster of short options, as in -qv
ClusterTok(tok) == OptionShaped(tok) /\ ~HasEq(tok) /\ Len(tok) > 2 /\ tok[2] # "-"

\* a standalone option token, -x or --xyz
SingleTok(tok) ==
    OptionShaped(tok) /\ ~HasEq(tok) /\ ~ClusterTok(tok) /\ tok # Terminator

\* the short option of the k-th character of a cluster
ShortAt(tok, k) == <<"-", tok[k + 1]>>

\* the token leaves the scanner waiting for a value
OpensValue(tok) ==
    \/ SingleTok(tok) /\ TakesValue(tok)
    \/ ClusterTok(tok) /\ TakesValue(ShortAt(tok, Len(tok) - 1))

\* the roles of the tokens of a vector that is scanned without error, the
\* scanner being in the given mode ("normal", "awaiting", "literal")
RoleOf(tok, mode) ==
    IF mode = "awaiting" THEN "value"
    ELSE IF mode = "literal" THEN "positional"
    ELSE IF tok = Terminator THEN "terminator"
    ELSE IF ~OptionShaped(tok) THEN "positional"
    ELSE IF HasEq(tok) THEN "inline"
    ELSE IF ClusterTok(tok) THEN "cluster"
    ELSE "single"

ModeAfter(tok, mode) ==
    IF mode = "awaiting" THEN "normal"
    ELSE IF mode = "literal" \/ tok = Terminator THEN "literal"
    ELSE IF OpensValue(tok) THEN "awaiting"
    ELSE "normal"

RECURSIVE RolesFrom(_, _)
RolesFrom(toks, mode) ==
    IF toks = <<>> THEN <<>>
    ELSE <<RoleOf(Head(toks), mode)>>
            \o RolesFrom(Tail(toks), ModeAfter(Head(toks), mode))

Roles(toks) == RolesFrom(toks, "normal")

\* the positional tokens of a vector, in encounter order
RECURSIVE Pick(_, _, _)
Pick(toks, roles, role) ==
    IF toks = <<>> THEN <<>>
    ELSE (IF Head(roles) = role THEN <<Head(toks)>> ELSE <<>>)
            \o Pick(Tail(toks), Tail(roles), role)

Positionals(toks) == Pick(toks, Roles(toks), "positional")

\* the outcome of Parse on the tokens toks and the record the caller passed
Outcome(toks) == Run(Start(opts0), toks)

\* the outcome of this call
Here == Cur

Returned == pc = "done"
Succeeded == pc = "done" /\ err = Nil

-----------------------------------------------------------------------------
(* C1 *)

\* the vector as items: an option group (the option token, with its value
\* token if it takes the next token) or one positional token
RECURSIVE Items(_)
Items(toks) ==
    IF toks = <<>> THEN <<>>
    ELSE IF ~OptionShaped(Head(toks))
         THEN <<[group |-> FALSE, toks |-> <<Head(toks)>>]>> \o Items(Tail(toks))
    ELSE IF OpensValue(Head(toks)) /\ Len(toks) >= 2
         THEN <<[group |-> TRUE, toks |-> SubSeq(toks, 1, 2)]>>
                 \o Items(SubSeq(toks, 3, Len(toks)))
    ELSE <<[group |-> TRUE, toks |-> <<Head(toks)>>]>> \o Items(Tail(toks))

RECURSIVE Keep(_, _)
Keep(items, group) ==
    IF items = <<>> THEN <<>>
    ELSE (IF Head(items).group = group THEN <<Head(items)>> ELSE <<>>)
            \o Keep(Tail(items), group)

\* every merge of two sequences that keeps the order within each
RECURSIVE Merges(_, _)
Merges(a, b) ==
    IF a = <<>> THEN {b}
    ELSE IF b = <<>> THEN {a}
    ELSE {<<Head(a)>> \o m : m \in Merges(Tail(a), b)}
            \cup {<<Head(b)>> \o m : m \in Merges(a, Tail(b))}

RECURSIVE Flatten(_)
Flatten(items) ==
    IF items = <<>> THEN <<>> ELSE Head(items).toks \o Flatten(Tail(items))

\* the vectors got by moving the positional tokens before, between or after
\* the option groups
Rearrangements(toks) ==
    {Flatten(m) : m \in Merges(Keep(Items(toks), TRUE), Keep(Items(toks), FALSE))}

\* C1 (interleaving law): a vector without "--" that parses without error
\* gives, however its positional tokens are moved before, between or after
\* its option groups, the same positional list (the positional tokens in
\* encounter order) and the same final field values.
C1_Interleaving ==
    (Succeeded /\ Terminator \notin Range(argv)) =>
        /\ args = Flatten(Keep(Items(argv), FALSE))
        /\ \A v \in Rearrangements(argv) :
              /\ Outcome(v).pc = "done"
              /\ Outcome(v).err = Nil
              /\ Outcome(v).args = args
              /\ Outcome(v).opts = opts

\* a successful parse of two positionals around a group of an option and
\* its value, which has six rearrangements
C1_Witness ==
    /\ Succeeded
    /\ Terminator \notin Range(argv)
    /\ Len(Keep(Items(argv), FALSE)) >= 2
    /\ \E k \in 1..Len(Items(argv)) : Len(Items(argv)[k].toks) = 2
    /\ Cardinality(Rearrangements(argv)) >= 3
    /\ argv[1] = <<"a">>

MaxInterleaved == 4

TokensInterleaved ==
    { <<"a">>, <<"b">>, <<"5">>, <<"-", "q">>, <<"-", "n">>,
      <<"-", "-", "n", "u", "m", "=", "5">>, <<"-", "v", "n">> }

SpecInterleaved == InitWith(TokensInterleaved, MaxInterleaved) /\ [][Next]_vars

-----------------------------------------------------------------------------
(* C2 *)

\* the token the next iteration of the loop takes
Tok == argv[i + 1]

Scanning == pc = "scan" /\ i < Len(argv)

Exhausted == pc = "scan" /\ i = Len(argv)

Normal == ~expectOptArg /\ ~onlyArgsRemain

\* C2 (terminator law): the "--" token seen in the normal state sets
\* onlyArgsRemain and is not stored; onlyArgsRemain never becomes false
\* again; every token after it is appended verbatim to args, changes no
\* field and raises no error, and Parse then returns without error.
C2_Terminator ==
    [][ /\ (Scanning /\ Normal /\ Tok = Terminator) =>
              (onlyArgsRemain' /\ args' = args /\ opts' = opts /\ err' = Nil
                  /\ pc' = "scan")
        /\ onlyArgsRemain => onlyArgsRemain'
        /\ (Scanning /\ onlyArgsRemain) =>
              (args' = Append(args, Tok) /\ opts' = opts /\ err' = Nil /\ pc' = "scan")
        /\ (Exhausted /\ onlyArgsRemain) =>
              (args' = args /\ opts' = opts /\ err' = Nil /\ pc' = "done")
      ]_vars

\* after the terminator an unknown option and a second "--" were stored
C2_Witness ==
    /\ Succeeded
    /\ onlyArgsRemain
    /\ argv = <<Terminator, <<"-", "p">>, Terminator>>
    /\ args = <<<<"-", "p">>, Terminator>>
    /\ opts = opts0

-----------------------------------------------------------------------------
(* C3 *)

\* the tokens the loop has taken
Taken == SubSeq(argv, 1, i)

ValueTaking == {d \in 1..Len(definedOptions) : definedOptions[d].requireArg}

\* the part of an inline token before its first "=", and the part after it
Before(tok) == SubSeq(tok, 1, IndexEq(tok) - 1)
After(tok) == SubSeq(tok, IndexEq(tok) + 1, Len(tok))

\* the option a token that opens a value names
Opener(tok) == IF ClusterTok(tok) THEN ShortAt(tok, Len(tok) - 1) ELSE tok

\* token k of toks supplies a value to descriptor d: inline, or as the token
\* after a standalone or cluster-terminal option
SuppliesAt(toks, k, d) ==
    \/ /\ Roles(toks)[k] = "inline"
       /\ Known(Before(toks[k]))
       /\ optionsMap[Before(toks[k])] = d
       /\ definedOptions[d].requireArg
    \/ /\ Roles(toks)[k] = "value"
       /\ optionsMap[Opener(toks[k - 1])] = d

Supplies(toks, d) == Cardinality({k \in 1..Len(toks) : SuppliesAt(toks, k, d)})

\* the value text token k supplies
Supplied(toks, k) ==
    IF Roles(toks)[k] = "inline" THEN After(toks[k]) ELSE toks[k]

\* the value setOptArg stores for the text, if it accepts it
Coerced(kind, text) ==
    CASE kind = "bool"   -> ParseBool(text)
      [] kind = "int"    -> ParseInt(text)
      [] kind = "uint"   -> ParseUint(text)
      [] kind = "string" -> [ok |-> TRUE, val |-> text]

\* C3 (duplicate law): among the tokens taken so far a value-taking option
\* is supplied a value at most twice, through any spelling and form; the
\* second supply ends Parse with "passed multiple times", raised on the
\* token that carries the second value (a value token or an inline token),
\* and that error has no other cause; a single supply of a value the field
\* accepts is assigned without error.
C3_Duplicate ==
    pc \in {"scan", "done"} =>
        /\ \A d \in ValueTaking :
              /\ Supplies(Taken, d) <= 2
              /\ Supplies(Taken, d) = 2 =>
                    /\ pc = "done"
                    /\ err.fmt = ErrMultiple
                    /\ SuppliesAt(Taken, i, d)
              /\ ( /\ Supplies(Taken, d) = 1
                   /\ i >= 1
                   /\ SuppliesAt(Taken, i, d)
                   /\ Coerced(definedOptions[d].kind, Supplied(Taken, i)).ok ) =>
                    /\ err = Nil
                    /\ opts[definedOptions[d].fieldIndex]
                          = Coerced(definedOptions[d].kind, Supplied(Taken, i)).val
        /\ err.fmt = ErrMultiple =>
              /\ Roles(Taken)[i] \in {"value", "inline"}
              /\ \E d \in ValueTaking : Supplies(Taken, d) = 2

\* -n 1 --num=2 of TestParseRepeatOptArg, with 5 for both values
C3_Witness ==
    /\ pc = "done"
    /\ err.fmt = ErrMultiple
    /\ argv = <<<<"-", "n">>, <<"5">>, <<"-", "-", "n", "u", "m", "=", "5">>>>
    /\ opts[4] = 5

TokensRepeated ==
    { <<"a">>, <<"5">>, <<"-", "n">>, <<"-", "-", "n", "u", "m">>, <<"-", "f">>,
      <<"-", "-", "n", "u", "m", "=", "5">>, <<"-", "n", "=", "5">>, <<"-", "v", "n">> }

SpecRepeated == InitWith(TokensRepeated, MaxArgs) /\ [][Next]_vars

-----------------------------------------------------------------------------
(* C4 *)

\* C4: once the table is built every failure of the scan is returned as
\* (args, error), never as a panic, and the returned args are the positional
\* tokens among the tokens taken up to the failure.
C4_ErrorsReturned ==
    /\ pc # "define" => pc # "panic"
    /\ pc = "done" => args = Positionals(Taken)

-----------------------------------------------------------------------------
(* C5 *)

Ended == pc \in {"done", "panic"}

\* the characters of a cluster are known short spellings of no-value
\* options, the last one possibly of a value-taking option
ClusterOfKnown(tok) ==
    /\ ClusterTok(tok)
    /\ \A k \in 1..(Len(tok) - 1) : Known(ShortAt(tok, k))
    /\ \A k \in 1..(Len(tok) - 2) : ~TakesValue(ShortAt(tok, k))

\* the cluster as separate tokens: -c1 -c2 ... -ck
Separate(tok) == [k \in 1..(Len(tok) - 1) |-> ShortAt(tok, k)]

\* the vector with its token k replaced by the separate tokens
Separated(toks, k) ==
    SubSeq(toks, 1, k - 1) \o Separate(toks[k]) \o SubSeq(toks, k + 1, Len(toks))

\* C5 (clustering law): when Parse has ended, every token it took as a
\* cluster of known short options can be replaced by the separate tokens
\* -c1 ... -ck without changing the outcome: the same field values, the same
\* positional arguments, the same success or failure.
C5_Clustering ==
    Ended =>
        \A k \in 1..i :
            (Roles(Taken)[k] = "cluster" /\ ClusterOfKnown(argv[k])) =>
                /\ Outcome(Separated(argv, k)).pc = pc
                /\ Outcome(Separated(argv, k)).err = err
                /\ Outcome(Separated(argv, k)).args = args
                /\ Outcome(Separated(argv, k)).opts = opts

\* the law for clusters without a dash among their characters
C5_ClusteringOfLetters ==
    Ended =>
        \A k \in 1..i :
            ( /\ Roles(Taken)[k] = "cluster"
              /\ ClusterOfKnown(argv[k])
              /\ "-" \notin Range(Tail(argv[k])) ) =>
                /\ Outcome(Separated(argv, k)).pc = pc
                /\ Outcome(Separated(argv, k)).err = err
                /\ Outcome(Separated(argv, k)).args = args
                /\ Outcome(Separated(argv, k)).opts = opts

TokensClustered ==
    { <<"a">>, <<"5">>, <<"-", "-">>, <<"-", "n">>,
      <<"-", "q", "v">>, <<"-", "v", "v">>, <<"-", "v", "n">>, <<"-", "v", "s">>,
      <<"-", "q", "-">>, <<"-", "-", "n", "u", "m", "=", "5">> }

SpecClustered == InitWith(TokensClustered, MaxArgs) /\ [][Next]_vars

-----------------------------------------------------------------------------
(* C6 *)

NoValue == {d \in 1..Len(definedOptions) : ~definedOptions[d].requireArg}

\* how often token tok, in the given role, names descriptor d
Names(tok, role, d) ==
    IF role = "single"
    THEN IF tok \in {definedOptions[d].shortOpt, definedOptions[d].longOpt} THEN 1 ELSE 0
    ELSE IF role = "cluster"
    THEN Cardinality({k \in 1..(Len(tok) - 1) : ShortAt(tok, k) = definedOptions[d].shortOpt})
    ELSE 0

\* the occurrences of option d in a vector: as a standalone token through
\* either spelling and inside clusters, before any terminator and not as
\* the value of another option
RECURSIVE OccurFrom(_, _, _)
OccurFrom(toks, roles, d) ==
    IF toks = <<>> THEN 0
    ELSE Names(Head(toks), Head(roles), d) + OccurFrom(Tail(toks), Tail(roles), d)

Occurrences(toks, d) == OccurFrom(toks, Roles(toks), d)

\* C6 (counter law): after a successful Parse the field of a no-value
\* option is its value before the call plus the number of occurrences of
\* the option (integer kinds), or true if it occurred and its value before
\* the call otherwise (bool).
C6_Counter ==
    Succeeded =>
        \A d \in NoValue :
            LET f == definedOptions[d].fieldIndex
                n == Occurrences(argv, d)
            IN  CASE fields[f].kind \in {"int", "uint"} -> opts[f] = opts0[f] + n
                  [] fields[f].kind = "bool" -> opts[f] = (opts0[f] \/ n > 0)
                  [] OTHER -> n = 0 /\ opts[f] = opts0[f]

\* -vv --verbose on a record whose Verbose was 7: three occurrences
C6_Witness ==
    /\ Succeeded
    /\ argv = <<<<"-", "v", "v">>, <<"-", "-", "v", "e", "r", "b", "o", "s", "e">>,
                Terminator>>
    /\ opts0[3] = 7
    /\ opts[3] = 10

TokensCounted ==
    { <<"a">>, <<"5">>, Terminator, <<"-", "n">>, <<"-", "q">>, <<"-", "v">>,
      <<"-", "-", "v", "e", "r", "b", "o", "s", "e">>,
      <<"-", "-", "c", "o", "u", "n", "t">>, <<"-", "v", "v">>, <<"-", "q", "v">> }

SpecCounted == InitWith(TokensCounted, MaxArgs) /\ [][Next]_vars

-----------------------------------------------------------------------------
(* C7 *)

\* C7 (unknown-option law): a standalone option token taken in the normal
\* state whose spelling is not in the table ends Parse with "invalid
\* option", no field changes, and nothing is processed after Parse returned.
C7_Unknown ==
    [][ /\ (Scanning /\ Normal /\ SingleTok(Tok) /\ ~Known(Tok)) =>
              /\ pc' = "done"
              /\ err' = Error(ErrInvalidOption, <<Tok>>)
              /\ opts' = opts
              /\ args' = args
        /\ pc # "done"
      ]_vars

\* --foo after a positional and before -q: Quiet is not set
C7_Witness ==
    /\ pc = "done"
    /\ err.fmt = ErrInvalidOption
    /\ argv = <<<<"a">>, <<"-", "-", "f", "o", "o">>, <<"-", "q">>>>
    /\ i = 2
    /\ args = <<<<"a">>>>
    /\ opts = opts0
    /\ opts[2] = FALSE

-----------------------------------------------------------------------------
(* C8 *)

NoOptionTokens == \A k \in 1..Len(argv) : ~OptionShaped(argv[k])

\* C8: a vector without option tokens (empty strings allowed) is returned
\* unchanged as the positional arguments, without error, and no field
\* changes.
C8_NoOptions ==
    NoOptionTokens =>
        /\ pc # "panic"
        /\ opts = opts0
        /\ err = Nil
        /\ args = Taken
        /\ pc = "done" => args = argv

C8_Witness ==
    /\ Succeeded
    /\ argv = <<<<"a">>, <<>>, <<"5">>>>
    /\ args = argv

-----------------------------------------------------------------------------
(* C9 *)

\* C9: "option requires an argument" with the placeholder is the error of
\* Parse exactly when the vector is exhausted while a value is awaited; it
\* is never raised inside the loop; the awaiting state is entered only by a
\* standalone or cluster-terminal value-taking option taken in the normal
\* state, and neither that token nor the return changes the pending field.
C9_Truncated ==
    [][ /\ Exhausted =>
              /\ pc' = "done"
              /\ opts' = opts
              /\ args' = args
              /\ err'.fmt = ErrRequiresArgOf <=> expectOptArg
              /\ ~expectOptArg => err' = Nil
        /\ Scanning => err'.fmt # ErrRequiresArgOf
        /\ (Scanning /\ ~expectOptArg /\ expectOptArg') =>
              /\ ~onlyArgsRemain
              /\ SingleTok(Tok) \/ ClusterTok(Tok)
              /\ TakesValue(Opener(Tok))
              /\ expectOptIdx' = optionsMap[Opener(Tok)]
              /\ opts'[definedOptions[expectOptIdx'].fieldIndex]
                    = opts[definedOptions[expectOptIdx'].fieldIndex]
      ]_vars

\* -vn as the last token: Verbose was counted, Num is untouched
C9_Witness ==
    /\ pc = "done"
    /\ err = Error(ErrRequiresArgOf, <<<<"-", "-", "n", "u", "m">>,
                                       <<"N", "U", "M", "B", "E", "R">>>>)
    /\ argv = <<<<"a">>, <<"-", "v", "n">>>>
    /\ opts[4] = opts0[4]
    /\ opts[3] = opts0[3] + 1

-----------------------------------------------------------------------------
(* C10 *)

\* the tag of the field behind descriptor d
TagOf(d) == fields[definedOptions[d].fieldIndex].m

HasPlaceholder(d) == TagOf(d).arg1 # <<>> \/ TagOf(d).arg2 # <<>>

\* C10: a descriptor takes a value iff one of its spellings has a
\* placeholder in the tag; then each of its spellings, given as a
\* standalone token, makes the scanner await a value without touching a
\* field, and the next token is assigned to the field.
C10_TakesValue ==
    /\ [](pc \in {"scan", "done"} =>
            \A d \in 1..Len(definedOptions) :
                definedOptions[d].requireArg <=> HasPlaceholder(d))
    /\ [][ \A d \in 1..Len(definedOptions) :
              HasPlaceholder(d) =>
                /\ ( /\ Scanning /\ Normal
                     /\ Tok # <<>>
                     /\ Tok \in {TagOf(d).short, TagOf(d).long} ) =>
                        /\ expectOptArg' /\ expectOptIdx' = d
                        /\ opts' = opts /\ err' = Nil /\ pc' = "scan"
                /\ ( /\ Scanning /\ expectOptArg /\ expectOptIdx = d
                     /\ combineOptions(TagOf(d).short, TagOf(d).long) \notin argAlready
                     /\ Coerced(definedOptions[d].kind, Tok).ok ) =>
                        /\ ~expectOptArg' /\ err' = Nil
                        /\ opts'[definedOptions[d].fieldIndex]
                              = Coerced(definedOptions[d].kind, Tok).val
         ]_vars

\* -n 5: the short spelling of "-n, --num=NUMBER" has no placeholder
C10_Witness ==
    /\ Succeeded
    /\ argv = <<<<"-", "n">>, <<"5">>>>
    /\ TagOf(4).arg1 = <<>>
    /\ opts[4] = 5

-----------------------------------------------------------------------------
(* Inline values given to options that take none *)

TokensNoValue ==
    { <<"a">>, <<"-", "q">>,
      <<"-", "q", "=", "1">>, <<"-", "q", "=", "t", "r", "u", "e">>,
      <<"-", "q", "=">>, <<"-", "-", "q", "u", "i", "e", "t", "=", "1">>,
      <<"-", "v", "=", "2">>, <<"-", "s", "=", "x">>, <<"-", "-", "=", "x">>,
      <<"-", "-", "c", "o", "u", "n", "t", "=">>,
      <<"-", "-", "n", "u", "m", "=", "5">> }

SpecNoValue == InitWith(TokensNoValue, MaxArgs) /\ [][Next]_vars

\* the token is processed as an option with an inline value
InlineTok == Scanning /\ Normal /\ OptionShaped(Tok) /\ HasEq(Tok)

\* C11 (option takes no value): an inline token opt=value whose left part is
\* a known spelling of an option that takes no value makes Parse return the
\* error "option ... does not take an argument", whatever the value text
\* (true, 1, the empty text), and the token changes no field, no positional
\* argument and no record of received values.
C11_TakesNoValue ==
    [][(InlineTok /\ Known(Before(Tok)) /\ ~TakesValue(Before(Tok)))
        => /\ pc' = "done"
           /\ err' = Error(ErrTakesNoArg, <<Before(Tok)>>)
           /\ opts' = opts
           /\ args' = args
           /\ argAlready' = argAlready]_vars

\* a bool option was given "true" inline after another option was applied
C11_Witness ==
    /\ pc = "done"
    /\ i = 2
    /\ argv[2] = <<"-", "q", "=", "t", "r", "u", "e">>
    /\ err = Error(ErrTakesNoArg, <<<<"-", "q">>>>)
    /\ opts # opts0

-----------------------------------------------------------------------------
(* Value coercion *)

TokensCoerced ==
    { <<"-", "n">>, <<"-", "u">>, <<"-", "f">>,
      <<"5">>, <<"+", "5">>, <<"-", "5">>, <<"x">>, <<>>,
      <<"-", "-", "u", "n", "s", "i", "g", "n", "e", "d", "=", "+", "5">>,
      <<"-", "-", "n", "u", "m", "=", "-", "5">>,
      <<"9", "9", "9", "9", "9", "9", "9", "9", "9", "9",
        "9", "9", "9", "9", "9", "9", "9", "9", "9", "9">> }

SpecCoerced == InitWith(TokensCoerced, MaxArgs) /\ [][Next]_vars

\* base-10 digits, at least one
UnsignedText(v) == v # <<>> /\ \A k \in 1..Len(v) : v[k] \in Digits

\* base-10 digits after an optional sign
SignedText(v) ==
    /\ v # <<>>
    /\ UnsignedText(IF v[1] \in {"+", "-"} THEN Tail(v) ELSE v)

\* the number the text denotes
NumberOf(v) ==
    IF v[1] = "-" THEN 0 - DecValue(Tail(v))
    ELSE IF v[1] = "+" THEN DecValue(Tail(v))
    ELSE DecValue(v)

\* the text is a value of the kind; a number of more than 18 digits does
\* not fit the 64 bits of the field
Acceptable(kind, v) ==
    CASE kind = "uint"   -> UnsignedText(v) /\ Len(v) <= 18
      [] kind = "int"    -> SignedText(v) /\ Len(v) <= 18
      [] kind = "string" -> TRUE

\* the name under which a descriptor is recorded as having received a value
KeyOf(d) == combineOptions(definedOptions[d].shortOpt, definedOptions[d].longOpt)

\* the descriptor has received a value
Received(d) == KeyOf(d) \in argAlready

\* the step from this state gives a value text to a descriptor: the token
\* after a standalone or cluster-terminal option, or the inline value
GivesValue ==
    /\ Scanning
    /\ expectOptArg \/ (InlineTok /\ TakesValue(Before(Tok)))

GivenTo == IF expectOptArg THEN expectOptIdx ELSE optionsMap[Before(Tok)]

GivenText == IF expectOptArg THEN Tok ELSE After(Tok)

\* C12 (value coercion): a value for an unsigned field is accepted only if
\* it is base-10 digits without a sign (+5 and -5 are rejected), a value for
\* an int field is accepted with an optional leading sign, a value for a
\* string field is stored verbatim and never fails; an accepted value is
\* stored and recorded as received, a rejected one makes Parse return
\* "invalid value", leaves the field as it was and is not recorded.
C12_Coercion ==
    [][(GivesValue /\ ~Received(GivenTo)) =>
        LET f == definedOptions[GivenTo].fieldIndex
            v == GivenText
        IN  IF Acceptable(fields[f].kind, v)
            THEN /\ err' = Nil
                 /\ pc' = "scan"
                 /\ opts'[f] = IF fields[f].kind = "string" THEN v ELSE NumberOf(v)
                 /\ KeyOf(GivenTo) \in argAlready'
            ELSE /\ pc' = "done"
                 /\ err'.fmt = ErrInvalidValue
                 /\ opts' = opts
                 /\ argAlready' = argAlready]_vars

\* -u +5 was rejected after -n -5 was accepted
C12_Witness ==
    /\ pc = "done"
    /\ err.fmt = ErrInvalidValue
    /\ argv = << <<"-", "n">>, <<"-", "5">>,
                 <<"-", "-", "u", "n", "s", "i", "g", "n", "e", "d", "=", "+", "5">> >>
    /\ opts[4] = 0 - 5
    /\ opts[5] = opts0[5]
    /\ Cardinality(argAlready) = 1

-----------------------------------------------------------------------------
(* Termination *)

TokensFair ==
    { <<>>, <<"-", "-">>, <<"a">>, <<"-", "q">>, <<"-", "n">>, <<"-", "s">>,
      <<"-", "p">>, <<"-", "q", "s">> }

\* Parse runs on: a step that can be taken is taken
SpecFair == InitWith(TokensFair, MaxArgs) /\ [][Next]_vars /\ WF_vars(Next)

\* C13 (termination): for every argument vector and every struct whose
\* declaration defineOptions accepts, Parse ends by returning (args, error or
\* nil) to its caller.
C13_Returns == <>(pc = "done")

\* Parse takes the elements of argv[1:] from the first on, never more than
\* there are, and none before the definitions are made
C13_Bounded == i \in 0..Len(argv) /\ (pc = "define" => i = 0)

\* Parse stops after at most one step for the definitions, one for each
\* element of argv[1:] and one for the return: it returns or it panics
C13_Halts == <>(pc \in {"done", "panic"})

\* each iteration takes exactly the next element of argv[1:]
C13_InOrder == [][i' \in {i, i + 1} /\ (i' = i + 1 => pc = "scan")]_vars

-----------------------------------------------------------------------------
(* The tag grammar *)

\* the parts annotations are written from
Shorts == {<<>>, <<"-", "q">>}

Placeholders == {<<>>, <<"N">>}

Joins == {<<>>, <<",">>, <<",", " ">>}

Longs == {<<>>, <<"-", "-", "a", "b">>}

Seps == {<<" ">>, <<",", " ">>}

Helps == {<<"x">>, <<"h", "i">>, <<"a", "-", "b", " ", "c">>, <<"a", "\n", "b">>}

\* the annotations of the form [short[=arg1]][, ][long[=arg2]][sep help]
\* with at least one spelling, each as the record of its parts
Annotations ==
    {p \in [short : Shorts, arg1 : Placeholders, join : Joins, long : Longs,
            arg2 : Placeholders, sep : Seps \cup {<<>>}, help : Helps \cup {<<>>}] :
        /\ p.short # <<>> \/ p.long # <<>>
        /\ p.arg1 # <<>> => p.short # <<>>
        /\ p.arg2 # <<>> => p.long # <<>>
        /\ p.sep = <<>> <=> p.help = <<>>}

\* the text of an annotation
Compose(p) ==
    p.short \o (IF p.arg1 = <<>> THEN <<>> ELSE <<"=">> \o p.arg1) \o p.join
    \o p.long \o (IF p.arg2 = <<>> THEN <<>> ELSE <<"=">> \o p.arg2)
    \o p.sep \o p.help

\* the spelling blocks: annotations without help
Blocks == {p \in Annotations : p.help = <<>>}

\* texts that begin with a dash
DashTexts == {<<"-", "h">>, <<"-", "h", " ", "m">>, <<"-", "-", "a", "b">>}

\* a spelling block, a separator, a text that begins with a dash
DashTailed == {Compose(p) \o s \o d : p \in Blocks, s \in Seps, d \in DashTexts}

blurp == <<"b", "l", "u", "r", "p">>

GrammarTags == {Compose(p) : p \in Annotations} \cup DashTailed \cup {blurp}

\* structs of one int field that carries the tag
GrammarTypes == {<<Field("Opt", "int", tag)>> : tag \in GrammarTags}

MaxGrammarArgs == 1

TokensGrammar == {<<"a">>, <<"-", "q">>, <<"-", "-", "a", "b", "=", "5">>}

SpecGrammar == InitOf(GrammarTypes, TokensGrammar, MaxGrammarArgs) /\ [][Next]_vars

\* the tag of the struct's field
TheTag == fields[1].tag

\* the descriptor table holds one descriptor, made of the parts of p
Yields(p) ==
    /\ Len(definedOptions) = 1
    /\ definedOptions[1].shortOpt = p.short
    /\ definedOptions[1].shortArg = p.arg1
    /\ definedOptions[1].longOpt = p.long
    /\ definedOptions[1].longArg = p.arg2
    /\ definedOptions[1].help = p.help

\* C14 (annotation grammar): for every annotation of the form
\* [short[=arg1]][, ][long[=arg2]][sep help] with at least one spelling,
\* defineOptions yields a descriptor whose spellings, placeholders and help
\* are exactly those parts, absent parts empty; an annotation the pattern
\* does not match (blurp) is a definition error.
C14_Grammar ==
    pc # "define" =>
        /\ \A p \in Annotations : TheTag = Compose(p) => pc # "panic" /\ Yields(p)
        /\ TheTag = blurp => pc = "panic"

\* help of two or more characters on one line, and no placeholder of the
\* short spelling directly followed by the long spelling
Plain(p) ==
    /\ Len(p.help) # 1
    /\ \A k \in 1..Len(p.help) : p.help[k] # "\n"
    /\ ~(p.arg1 # <<>> /\ p.join = <<>> /\ p.long # <<>>)

\* the grammar law for the annotations pattern and claim agree on
C14_GrammarOfPlain ==
    pc # "define" =>
        /\ \A p \in Annotations :
              (TheTag = Compose(p) /\ Plain(p)) => pc # "panic" /\ Yields(p)
        /\ TheTag = blurp => pc = "panic"

\* C15 (text after the spellings that begins with a dash), as claimed: for
\* an annotation made of a spelling block, a separator and a text that
\* begins with a dash (-q -h m), defineOptions does not fail; the text is
\* dropped and the descriptor has the block's spellings and no help.
C15_Swallowed ==
    pc # "define" =>
        \A p \in Blocks : \A s \in Seps : \A d \in DashTexts :
            TheTag = Compose(p) \o s \o d => pc # "panic" /\ Yields(p)

\* the tag is a spelling block, a separator and a text that begins with a dash
DashTail == TheTag \in DashTailed

\* a run of characters that are no comma and no whitespace
Placeholder(x) == x # <<>> /\ \A k \in 1..Len(x) : x[k] \notin {",", " ", "\t", "\n", "\f", "\r"}

\* x is name or name=placeholder, the name being the first n characters
Spelled(x, n) ==
    \/ Len(x) = n
    \/ Len(x) > n + 1 /\ x[n + 1] = "=" /\ Placeholder(SubSeq(x, n + 2, Len(x)))

\* short[=arg1]: a dash and one letter, digit or dash
ShortBlock(x) ==
    /\ Len(x) >= 2
    /\ x[1] = "-"
    /\ x[2] \in Alnum \cup {"-"}
    /\ Spelled(x, 2)

\* long[=arg2]: two dashes, a letter or digit, letters, digits or dashes
LongBlock(x) ==
    \E n \in 4..Len(x) :
        /\ x[1] = "-" /\ x[2] = "-"
        /\ x[3] \in Alnum
        /\ \A k \in 4..n : x[k] \in Alnum \cup {"-"}
        /\ Spelled(x, n)

\* a comma, with whitespace around it
Comma(x) ==
    \E c \in 1..Len(x) :
        /\ x[c] = ","
        /\ \A k \in 1..Len(x) : k # c => x[k] \in {" ", "\t", "\n", "\f", "\r"}

\* sep or sep help: commas and whitespace, then nothing or a text that does
\* not begin with a dash or whitespace
Trailer(x) ==
    \E n \in 1..Len(x) :
        /\ \A k \in 1..n : x[k] \in {",", " ", "\t", "\n", "\f", "\r"}
        /\ n < Len(x) => x[n + 1] \notin {"-", " ", "\t", "\n", "\f", "\r"}

\* the tag as a whole is of the form [short[=arg1]][, ][long[=arg2]][sep help]
\* with at least one spelling
OfTheForm ==
    \E a \in 0..Len(TheTag) : \E b \in a..Len(TheTag) : \E c \in b..Len(TheTag) :
        LET short == SubSeq(TheTag, 1, a)
            join  == SubSeq(TheTag, a + 1, b)
            long  == SubSeq(TheTag, b + 1, c)
            rest  == SubSeq(TheTag, c + 1, Len(TheTag))
        IN  /\ short # <<>> \/ long # <<>>
            /\ short = <<>> \/ ShortBlock(short)
            /\ join = <<>> \/ Comma(join)
            /\ long = <<>> \/ LongBlock(long)
            /\ rest = <<>> \/ Trailer(rest)

\* C15 as the code has it: such an annotation is a definition error (the
\* pattern does not match it), no descriptor is made, nothing is scanned and
\* no field changes, unless the annotation as a whole is of the grammar's
\* form read another way: the text is its long spelling after a comma
\* (-q, --ab) or belongs to a help that begins with a comma (-q,, -h).
C15_Rejected ==
    (pc # "define" /\ DashTail /\ ~OfTheForm) =>
        /\ pc = "panic"
        /\ definedOptions = <<>>
        /\ i = 0
        /\ opts = opts0
        /\ args = <<>>

\* -q -h m was rejected
C15_Witness ==
    /\ TheTag = <<"-", "q", " ", "-", "h", " ", "m">>
    /\ pc = "panic"
    /\ argv # <<>>

-----------------------------------------------------------------------------
(* PrintHelp *)

ColumnWidth == 28

\* fmt's %-*s: the text, padded with blanks on the right to the width
PadRight(str, width) == str \o [k \in 1..(width - Len(str)) |-> " "]

\* the entry is printed on two lines only if it is wider than the column
TwoLinesIfWider(opt) == Len(opt) > ColumnWidth

\* the entry is printed on two lines
TwoLines(opt) == Len(opt) >= ColumnWidth

\* the lines the loop of PrintHelp prints from descriptor d on
RECURSIVE HelpFrom(_, _)
HelpFrom(defs, d) ==
    IF d > Len(defs) THEN <<>>
    ELSE IF defs[d].help = <<>> THEN HelpFrom(defs, d + 1)
    ELSE LET optarg == IF defs[d].longArg # <<>> THEN defs[d].longArg
                       ELSE defs[d].shortArg
             opt    == combineOptions(defs[d].shortOpt, defs[d].longOpt)
                       \o (IF optarg # <<>> THEN <<"=">> \o optarg ELSE <<>>)
         IN  (IF TwoLines(opt)
              THEN << <<" ", " ">> \o opt,
                      <<" ", " ">> \o PadRight(<<" ">>, ColumnWidth) \o <<" ", " ">>
                          \o defs[d].help >>
              ELSE << <<" ", " ">> \o PadRight(opt, ColumnWidth) \o <<" ", " ">>
                          \o defs[d].help >>)
             \o HelpFrom(defs, d + 1)

\* the field declarations the structs given to PrintHelp are made of

HelpFields ==
    { Field("Help", "bool",
            <<"-", "h", ",", " ", "-", "-", "h", "e", "l", "p">>),
      Field("Quiet", "bool",
            <<"-", "q", " ", " ", "s", "u", "p", "p", "r", "e", "s", "s">>),
      Field("Out", "string",
            <<"-", "o", ",", " ", "-", "-", "o", "u", "t", "p", "u", "t",
              "-", "d", "i", "r", "e", "c", "t", "o", "r", "y", "=", "P",
              "A", "T", "H", " ", " ", "d", "i", "r">>),
      Field("Outs", "string",
            <<"-", "o", ",", " ", "-", "-", "o", "u", "t", "p", "u", "t",
              "-", "d", "i", "r", "e", "c", "t", "o", "r", "y", "=", "P",
              "A", "T", "H", "S", " ", " ", "d", "i", "r", "s">>),
      Field("Folder", "string",
            <<"-", "o", ",", " ", "-", "-", "o", "u", "t", "p", "u", "t",
              "-", "d", "i", "r", "e", "c", "t", "o", "r", "y", "=", "F",
              "O", "L", "D", "E", "R", " ", " ", "f", "o", "l", "d", "e",
              "r">>),
      Field("Num", "int",
            <<"-", "n", "=", "N", "U", "M", ",", " ", "-", "-", "n", "u",
              "m", " ", " ", "n", "u", "m", "b", "e", "r">>),
      Field("Both", "uint",
            <<"-", "x", "=", "A", ",", " ", "-", "-", "e", "x", "=", "B",
              " ", " ", "b", "o", "t", "h">>),
      Field("Plain", "int", <<>>),
      Field("Bad", "int", blurp) }

MaxFields == 2

\* PrintHelp is called on a struct of at most n of these fields
InitHelp(n) ==
    /\ fields \in Vectors(HelpFields, n)
    /\ opts0 \in Records(fields)
    /\ argv = <<>>
    /\ opts = opts0
    /\ definedOptions = <<>>
    /\ optionsMap = <<>>
    /\ argAlready = {}
    /\ args = <<>>
    /\ onlyArgsRemain = FALSE
    /\ expectOptArg = FALSE
    /\ expectOptIdx = 1
    /\ i = 0
    /\ err = Nil
    /\ pc = "help"
    /\ out = <<>>

\* PrintHelp(taggedStructP)
PrintHelp ==
    /\ pc = "help"
    /\ \E r \in {defineOptions(fields)} :
           /\ definedOptions' = r.defs
           /\ out' = IF r.panic THEN out ELSE HelpFrom(r.defs, 1)
           /\ pc' = IF r.panic THEN "panic" ELSE "done"
    /\ UNCHANGED <<fields, opts0, argv, opts, optionsMap, argAlready, args,
                   onlyArgsRemain, expectOptArg, expectOptIdx, i, err>>

SpecHelp == InitHelp(MaxFields) /\ [][PrintHelp]_vars

\* the fields PrintHelp shows: those whose tag has a help text
Shown == {f \in 1..Len(fields) : fields[f].hasTag /\ fields[f].m.help # <<>>}

\* what is displayed for field f: the spellings, and the placeholder if the
\* option takes a value
Displayed(f) ==
    LET t == fields[f].m
        spellings == IF t.short # <<>> /\ t.long # <<>>
                     THEN t.short \o <<",", " ">> \o t.long
                     ELSE t.short \o t.long
        placeholder == IF t.arg2 # <<>> THEN t.arg2 ELSE t.arg1
    IN  IF placeholder = <<>> THEN spellings
        ELSE spellings \o <<"=">> \o placeholder

Blanks(n) == [k \in 1..n |-> " "]

\* the entry of field f, printed on two lines if its display is wider than w
Entry(f, w) ==
    IF Len(Displayed(f)) > w
    THEN << Blanks(2) \o Displayed(f),
            Blanks(2) \o Blanks(ColumnWidth) \o Blanks(2) \o fields[f].m.help >>
    ELSE << Blanks(2) \o Displayed(f) \o Blanks(ColumnWidth - Len(Displayed(f))) \o Blanks(2)
                \o fields[f].m.help >>

\* the entries of the shown fields from field f on, in declaration order
RECURSIVE EntriesFrom(_, _)
EntriesFrom(f, w) ==
    IF f > Len(fields) THEN <<>>
    ELSE (IF f \in Shown THEN Entry(f, w) ELSE <<>>) \o EntriesFrom(f + 1, w)

\* C16 (help rendering), as claimed: PrintHelp prints the entries in field
\* declaration order, only for the fields whose tag has a help text; a
\* display longer than 28 characters is on a line of its own with the help
\* on the next line under a blank column, a display of at most 28
\* characters shares its line with the help.
C16_Help == pc = "done" => out = EntriesFrom(1, ColumnWidth)

\* C16 as the code has it: a display of 28 characters or more is on a line
\* of its own, a display of at most 27 characters shares its line with the
\* help.
C16_HelpFrom28 == pc = "done" => out = EntriesFrom(1, ColumnWidth - 1)

\* a display of 28 characters was printed after one of 27
C16_Witness ==
    /\ pc = "done"
    /\ Len(fields) = 2
    /\ Shown = {1, 2}
    /\ Len(Displayed(1)) = ColumnWidth - 1
    /\ Len(Displayed(2)) = ColumnWidth
    /\ Len(out) = 3

-----------------------------------------------------------------------------
(* The token after an option that takes a value *)

TokensPending ==
    { <<>>, <<"-", "-">>, <<"a">>, <<"-", "f">>, <<"-", "n">>, <<"-", "q">>,
      <<"-", "p">>, <<"-", "-", "n", "u", "m", "=", "5">>, <<"-", "q", "f">> }

SpecPending == InitWith(TokensPending, MaxArgs) /\ [][Next]_vars

\* the field of the option whose value is awaited
PendingField == definedOptions[expectOptIdx].fieldIndex

\* C17 (awaiting a value): while a value is awaited the next token is taken
\* whole as the pending option's value, whatever its shape (--, a known or
\* unknown option spelling, an inline opt=value, the empty string): it is
\* not appended to args, does not set onlyArgsRemain, changes no field other
\* than the pending option's, and after a successful assignment the scanner
\* is back in the normal state; a string field then holds the token itself.
C17_Pending ==
    [][(Scanning /\ expectOptArg) =>
        /\ args' = args
        /\ onlyArgsRemain' = onlyArgsRemain
        /\ \A f \in 1..Len(fields) : f # PendingField => opts'[f] = opts[f]
        /\ IF err' = Nil
           THEN /\ pc' = "scan"
                /\ ~expectOptArg'
                /\ fields[PendingField].kind = "string" => opts'[PendingField] = Tok
                /\ fields[PendingField].kind = "int" => opts'[PendingField] = NumberOf(Tok)
           ELSE /\ pc' = "done"
                /\ err'.fmt \in {ErrMultiple, ErrInvalidValue}
                /\ opts' = opts]_vars

\* -qf was followed by -- and then by --num=5: the file name is --, the
\* scanner is back in the normal state and took the inline value
C17_Witness ==
    /\ argv = << <<"-", "q", "f">>, <<"-", "-">>,
                 <<"-", "-", "n", "u", "m", "=", "5">> >>
    /\ pc = "done"
    /\ err = Nil
    /\ opts[6] = <<"-", "-">>
    /\ opts[4] = 5
    /\ args = <<>>

-----------------------------------------------------------------------------
(* Clusters that cannot be completed *)

TokensBroken ==
    { <<"a">>, <<"-", "v">>,
      <<"-", "v", "n", "q">>, <<"-", "q", "v", "n">>, <<"-", "q", "p", "v">>,
      <<"-", "v", "v", "u", "h">>, <<"-", "q", "-", "n", "v">>,
      <<"-", "p", "n", "q">>, <<"-", "s", "n", "q">>, <<"-", "q", "s", "p">> }

SpecBroken == InitWith(TokensBroken, MaxArgs) /\ [][Next]_vars

\* character k of the cluster stops it: it is an unknown option, or an
\* option that takes a value and is not the last character
StopsAt(tok, k) ==
    \/ ~Known(ShortAt(tok, k))
    \/ TakesValue(ShortAt(tok, k)) /\ k < Len(tok) - 1

\* the cluster token has a character that stops it
Broken(tok) == ClusterTok(tok) /\ \E k \in 1..(Len(tok) - 1) : StopsAt(tok, k)

\* the first character that stops the cluster
Stop(tok) ==
    CHOOSE k \in 1..(Len(tok) - 1) :
        StopsAt(tok, k) /\ \A j \in 1..(k - 1) : ~StopsAt(tok, j)

\* how many characters to the left of the stop name the option of field f
LeftOf(tok, f) ==
    Cardinality({k \in 1..(Stop(tok) - 1) : Descriptor(ShortAt(tok, k)).fieldIndex = f})

\* the field's value after n applications of its no-value option
AppliedTimes(f, n) ==
    IF n = 0 THEN opts[f]
    ELSE IF fields[f].kind = "bool" THEN TRUE
    ELSE opts[f] + n

\* the error the stopping character raises
StopError(tok) ==
    IF Known(ShortAt(tok, Stop(tok)))
    THEN Error(ErrRequiresArg, <<ShortAt(tok, Stop(tok))>>)
    ELSE Error(ErrInvalidPart, <<ShortAt(tok, Stop(tok)), tok>>)

\* the step from this state takes a cluster that cannot be completed
BrokenCluster == Scanning /\ Normal /\ Broken(Tok)

\* what C18 says of such a step
StopsThere ==
    /\ pc' = "done"
    /\ err' = StopError(Tok)
    /\ ~expectOptArg'
    /\ args' = args
    /\ \A f \in 1..Len(fields) : opts'[f] = AppliedTimes(f, LeftOf(Tok, f))

\* C18 (cluster errors): the characters of a cluster are processed from the
\* left and each no-value option is applied at once.  At a value-taking
\* option that is not the last character Parse returns "option ... requires
\* an argument" and does not await a value; at an unknown character it
\* returns "invalid option"; in both cases the no-value options to the left
\* have been applied and the characters to the right never are.
C18_ClusterStops == [][BrokenCluster => StopsThere]_vars

\* a no-value option on a string field is to the left of the stop
TextToTheLeft(tok) ==
    \E k \in 1..(Stop(tok) - 1) : fields[Descriptor(ShortAt(tok, k)).fieldIndex].kind = "string"

\* the same law for clusters with no such option to the left of the stop
C18_ClusterStopsOfCounters ==
    [][(BrokenCluster /\ ~TextToTheLeft(Tok)) => StopsThere]_vars

-----------------------------------------------------------------------------
(* Inline values and values in the next token *)

\* a struct whose tag "--=TEXT" gives a value-taking option the short
\* spelling --
DashArgOptions ==
    << Field("Quiet", "bool", <<"-", "q">>),
       Field("Num", "int",
             <<"-", "n", ",", " ", "-", "-", "n", "u", "m", "=", "N", "U", "M", "B", "E", "R">>),
       Field("Text", "string", <<"-", "-", "=", "T", "E", "X", "T">>) >>

TokensInline ==
    { <<"a">>, <<"-", "q">>, <<"-", "n">>, <<"5">>, <<"-", "f">>,
      <<"-", "-", "n", "u", "m", "=", "5">>, <<"-", "n", "=", "x">>,
      <<"-", "-", "=", "x">> }

SpecInline == InitOf({Options, DashArgOptions}, TokensInline, MaxArgs) /\ [][Next]_vars

\* value texts: empty, a number, a word, a text with a further "=", texts
\* shaped like options
ValueTexts ==
    { <<>>, <<"5">>, <<"x">>, <<"a", "=", "b">>, <<"-", "-">>, <<"-", "q">>,
      <<"-", "n", "=", "5">> }

\* the spellings of descriptor d
Spellings(d) == {definedOptions[d].shortOpt, definedOptions[d].longOpt} \ {<<>>}

\* the scan state after the two tokens S and v
Apart(s, S, v) ==
    LET s1 == Iter(s, S)
    IN  IF s1.pc = "scan" THEN Iter(s1, v) ELSE s1

\* the same fields, positional arguments and received values, the same
\* kind of error or none, and the same scanner state to go on from
SameEffect(a, b) ==
    /\ a.opts = b.opts
    /\ a.args = b.args
    /\ a.argAlready = b.argAlready
    /\ a.pc = b.pc
    /\ a.err.fmt = b.err.fmt
    /\ a.pc = "scan" => /\ a.onlyArgsRemain = b.onlyArgsRemain
                        /\ a.expectOptArg = b.expectOptArg

\* C19 (inline values): in the normal state, for every option that takes a
\* value, each of its spellings S and every value text v, the token S=v has
\* the same effect as the two tokens S and v: the same assignment, the same
\* duplicate check, the same "invalid value" outcome, the same args.
C19_Inline ==
    (pc = "scan" /\ Normal) =>
        \A d \in ValueTaking : \A S \in Spellings(d) : \A v \in ValueTexts :
            SameEffect(Iter(Cur, S \o <<"=">> \o v), Apart(Cur, S, v))

\* the same law for the spellings other than --
C19_InlineOfLetters ==
    (pc = "scan" /\ Normal) =>
        \A d \in ValueTaking : \A S \in Spellings(d) \ {<<"-", "-">>} :
            \A v \in ValueTexts :
                SameEffect(Iter(Cur, S \o <<"=">> \o v), Apart(Cur, S, v))

-----------------------------------------------------------------------------
(* Definition errors *)

\* field declarations: two that defineOptions accepts, a tagged field of a
\* kind it does not handle, the same kind without a tag, a tag the pattern
\* does not match, and a tag that is a help text only
MalformedFields ==
    { Field("Quiet", "bool", <<"-", "q">>),
      Field("Num", "int", <<"-", "n", "=", "N">>),
      Field("Ratio", "float64", <<"-", "r">>),
      Field("Plain", "float64", <<>>),
      Field("Bad", "int", blurp),
      Field("Only", "int", <<" ", "h", "e", "l", "p">>) }

TokensMalformed == {<<"a">>, <<"-", "q">>, <<"-", "n", "=", "5">>}

SpecMalformed ==
    InitOf(Vectors(MalformedFields, MaxFields), TokensMalformed, MaxArgs) /\ [][Next]_vars

\* field f carries the annotation and cannot be defined: its type is not
\* bool, int, uint or string, or its annotation fails the grammar, or it
\* yields neither spelling
Undefinable(f) ==
    /\ fields[f].tag # <<>>
    /\ \/ fields[f].kind \notin {"bool", "int", "uint", "string"}
       \/ ~regexTag(fields[f].tag).matched
       \/ /\ regexTag(fields[f].tag).m.short = <<>>
          /\ regexTag(fields[f].tag).m.long = <<>>

Malformed == \E f \in 1..Len(fields) : Undefinable(f)

\* Parse has halted with a definition error
DefinitionError == pc = "panic" /\ i = 0

\* C20 (definition errors come first): if an annotated field has an
\* unsupported type, an annotation that fails the grammar or one that yields
\* neither spelling, Parse halts with a definition error whatever the
\* argument vector, with no token scanned and no field modified; otherwise
\* there is no definition error, whatever the fields without the annotation.
C20_DefinitionErrors ==
    /\ Malformed =>
          /\ pc \in {"define", "panic"}
          /\ i = 0
          /\ args = <<>>
          /\ opts = opts0
    /\ (Malformed /\ pc # "define") => DefinitionError
    /\ ~Malformed => ~DefinitionError

\* a struct whose second field is of an unsupported type, called with
\* arguments and a record whose fields are set
C20_Witness ==
    /\ DefinitionError
    /\ Len(fields) = 2
    /\ ~Undefinable(1) /\ fields[1].tag # <<>>
    /\ fields[2].kind = "float64"
    /\ Len(argv) > 1
    /\ opts0[1] = TRUE

-----------------------------------------------------------------------------
(* C21 *)

TokensStates ==
    { <<"-", "-">>, <<"a">>, <<"5">>, <<"-", "n">>, <<"-", "-", "n", "u", "m">>,
      <<"-", "f">>, <<"-", "-", "n", "u", "m", "=", "5">>, <<"-", "v", "n">> }

SpecStates == InitWith(TokensStates, MaxArgs) /\ [][Next]_vars

\* the scanner's states, by the two flags
AwaitingValue == expectOptArg /\ ~onlyArgsRemain

LiteralOnly == onlyArgsRemain /\ ~expectOptArg

\* the scan state after the first k tokens, the loop having stopped at the
\* first token that ended Parse
RECURSIVE Reached(_)
Reached(k) ==
    IF k = 0 THEN Start(opts0)
    ELSE The({ IF s.pc = "scan" THEN Iter(s, argv[k]) ELSE s : s \in {Reached(k - 1)} })

\* a value of the same kind other than v
Another(v, kind) ==
    CASE kind = "bool"   -> ~v
      [] kind = "string" -> Append(v, "z")
      [] OTHER           -> v + 1

\* token k assigns field f: after it the field holds a value that does not
\* depend on the one it held before
Assigns(k, f) ==
    \E s \in {Reached(k - 1)} :
       /\ s.pc = "scan"
       /\ Iter(s, argv[k]).opts[f]
            = Iter([s EXCEPT !.opts[f] = Another(@, fields[f].kind)], argv[k]).opts[f]

\* how often the field has been assigned in this call
Assigned(f) == Cardinality({k \in 1..i : Assigns(k, f)})

\* C21 (scan-state invariant): in every state of a Parse call past the
\* definitions the scanner is in exactly one of Normal, AwaitingValue and
\* LiteralOnly, expectOptArg and onlyArgsRemain being never both true; while
\* expectOptArg is true expectOptIdx is the index of an existing descriptor
\* that takes a value; every key of argAlready is the combined spelling of
\* a value-taking descriptor whose field has been assigned exactly once in
\* this call.
C21_ScanState ==
    pc \in {"scan", "done"} =>
        /\ ~(expectOptArg /\ onlyArgsRemain)
        /\ (Normal /\ ~AwaitingValue /\ ~LiteralOnly)
              \/ (AwaitingValue /\ ~Normal /\ ~LiteralOnly)
              \/ (LiteralOnly /\ ~Normal /\ ~AwaitingValue)
        /\ expectOptArg =>
              /\ expectOptIdx \in 1..Len(definedOptions)
              /\ definedOptions[expectOptIdx].requireArg
        /\ \A key \in argAlready :
              \E d \in ValueTaking :
                 /\ key = combineOptions(definedOptions[d].shortOpt,
                                         definedOptions[d].longOpt)
                 /\ Assigned(definedOptions[d].fieldIndex) = 1

\* -n 5 -f: Num has received its value and the scanner awaits File's
C21_Witness ==
    /\ pc = "scan"
    /\ argv = <<<<"-", "n">>, <<"5">>, <<"-", "f">>>>
    /\ i = 3
    /\ AwaitingValue
    /\ definedOptions[expectOptIdx].longOpt = <<"-", "-", "f", "i", "l", "e">>
    /\ argAlready = {<<"-", "n", ",", " ", "-", "-", "n", "u", "m">>}
    /\ opts[4] = 5

-----------------------------------------------------------------------------
(* C22 *)

TokensAccounted ==
    { <<>>, <<"-", "-">>, <<"a">>, <<"-">>, <<"-", "q">>, <<"-", "n">>, <<"-", "p">>,
      <<"-", "-", "n", "u", "m", "=", "5">>, <<"-", "q", "v">> }

SpecAccounted == InitWith(TokensAccounted, MaxArgs) /\ [][Next]_vars

\* a is b with some of its elements left out, the others in b's order
RECURSIVE IsSubsequence(_, _)
IsSubsequence(a, b) ==
    IF a = <<>> THEN TRUE
    ELSE IF b = <<>> THEN FALSE
    ELSE IF Head(a) = Head(b) THEN IsSubsequence(Tail(a), Tail(b))
    ELSE IsSubsequence(a, Tail(b))

\* the state of the scanner as the specification names it
Mode ==
    IF expectOptArg THEN "awaiting"
    ELSE IF onlyArgsRemain THEN "literal"
    ELSE "normal"

\* the one role of the token the loop takes next
Role == RoleOf(Tok, Mode)

\* C22 (token accounting): the token a scan step takes has one role.  A
\* positional token is appended to args and the step changes nothing else;
\* a token taken as the terminator, as an option, an inline option or a
\* cluster, or as the value of the pending option leaves args as it is, so
\* a step that changes a field appends nothing.  After the step args is an
\* order-preserving subsequence of the tokens taken so far, namely their
\* positional ones.
C22_Accounting ==
    [][ Scanning =>
          /\ Role = "positional" =>
                /\ args' = Append(args, Tok)
                /\ opts' = opts
                /\ argAlready' = argAlready
                /\ expectOptArg' = expectOptArg
                /\ onlyArgsRemain' = onlyArgsRemain
                /\ err' = Nil
          /\ Role \in {"terminator", "single", "inline", "cluster", "value"} =>
                args' = args
          /\ Role = "terminator" => opts' = opts
          /\ opts' # opts => args' = args
          /\ IsSubsequence(args', SubSeq(argv, 1, i'))
          /\ args' = Positionals(SubSeq(argv, 1, i'))
      ]_vars

\* -q -- -q: the first -q was an option, the second is kept
C22_Witness ==
    /\ pc = "done"
    /\ err = Nil
    /\ argv = <<<<"-", "q">>, <<"-", "-">>, <<"-", "q">>>>
    /\ args = <<<<"-", "q">>>>
    /\ opts[2] = TRUE
    /\ ~opts0[2]

-----------------------------------------------------------------------------
(* C23 *)

\* a struct whose tagged fields stand between fields without the tag
MixedOptions ==
    << Field("Plain", "int", <<>>),
       Field("Quiet", "bool", <<"-", "q">>),
       Field("Note", "string", <<>>),
       Field("Verbose", "int", <<"-", "v", ",", " ", "-", "-", "v", "e", "r", "b", "o", "s", "e", " ", " ", "b", "e", " ", "m", "o", "r", "e", " ", "v", "e", "r", "b", "o", "s", "e">>),
       Field("Num", "int", <<"-", "n", ",", " ", "-", "-", "n", "u", "m", "=", "N", "U", "M", "B", "E", "R", " ", " ", "s", "p", "e", "c", "i", "f", "y", " ", "n", "u", "m", "b", "e", "r">>),
       Field("Flag", "bool", <<>>),
       Field("File", "string", <<"-", "f", "=", "F", "I", "L", "E">>) >>

TokensFramed ==
    { <<"-", "-">>, <<"a">>, <<"5">>, <<"-", "q">>, <<"-", "q", "v">>, <<"-", "v", "p">>,
      <<"-", "n">>, <<"-", "-", "n", "u", "m", "=", "5">>, <<"-", "f">> }

SpecFramed == InitOf({MixedOptions}, TokensFramed, MaxArgs) /\ [][Next]_vars

\* the field of the descriptor with the spelling opt, none if it is unknown
FieldsOf(opt) == IF Known(opt) THEN {Descriptor(opt).fieldIndex} ELSE {}

\* the fields referenced by the descriptors the token about to be taken
\* names: the pending option's for a value, the option's for a standalone
\* or inline token, those of its characters for a cluster
NamedFields ==
    CASE Role = "value"   -> {definedOptions[expectOptIdx].fieldIndex}
      [] Role = "single"  -> FieldsOf(Tok)
      [] Role = "inline"  -> FieldsOf(Before(Tok))
      [] Role = "cluster" -> UNION {FieldsOf(ShortAt(Tok, k)) : k \in 1..(Len(Tok) - 1)}
      [] OTHER            -> {}

Modified == {f \in 1..Len(fields) : opts'[f] # opts[f]}

Untagged == {f \in 1..Len(fields) : ~fields[f].hasTag}

\* C23 (frame): a scan step modifies at most the fields referenced by the
\* descriptors its token names, one field at most for a standalone option,
\* an inline token and a pending value, the fields of its characters for a
\* cluster; a positional token and the "--" token modify no field; no other
\* step of Parse modifies a field; a field without the annotation is
\* modified by no step and so keeps the value it had when Parse was called.
C23_Frame ==
    [][ /\ Scanning =>
              /\ Modified \subseteq NamedFields
              /\ Role \in {"value", "single", "inline"} => Cardinality(Modified) <= 1
              /\ Role \in {"positional", "terminator"} => Modified = {}
        /\ ~Scanning => Modified = {}
        /\ Modified \cap Untagged = {}
        /\ \A f \in Untagged : opts'[f] = opts0[f]
      ]_vars

\* -qv 5 --num=5 on a record with every field set: Verbose was counted up
\* and Num assigned, the fields without the annotation hold what they held
C23_Witness ==
    /\ pc = "done"
    /\ err = Nil
    /\ argv = <<<<"-", "q", "v">>, <<"5">>, <<"-", "-", "n", "u", "m", "=", "5">>>>
    /\ opts0[1] = 7
    /\ opts = <<7, TRUE, <<"x">>, 8, 5, TRUE, <<"x">>>>
    /\ args = <<<<"5">>>>

====
